---- MODULE Spec2Model ----
(***************************************************************************)
(* A model of qpydoc (src/qpydoc/__init__.py): the recursive module-tree   *)
(* walker (list_submodules, walk_submodules), the doctest folding          *)
(* (process_doctest), the field-list rendering (process_rst_args) and the  *)
(* callable table of a module index page (generate_site.on_mod).           *)
(*                                                                         *)
(* Text is a sequence of one-character strings; a dotted module name is    *)
(* text, "p.a" being <<"p", ".", "a">>.                                    *)
(***************************************************************************)
EXTENDS Integers, Sequences, FiniteSets, TLC

VARIABLES
    world,         \* the package on disk: what loads, the declared attributes
    default_tree,  \* the list object that is walk_submodules' default module_tree
    last,          \* the last top-level call and what it delivered
    arg,           \* the argument of the text transformation under study
    ret,           \* what it returned
    pc             \* "ready" before the transformation ran, "done" after

vars == <<world, default_tree, last, arg, ret, pc>>

(***************************************************************************)
(* Text helpers.                                                           *)
(***************************************************************************)

\* Code points of the characters that module names are compared by.
Ord(c) ==
    CASE c = "-" -> 45
      [] c = "." -> 46
      [] c = "_" -> 95
      [] c = "a" -> 97
      [] c = "b" -> 98
      [] c = "c" -> 99
      [] c = "f" -> 102
      [] c = "p" -> 112
      [] c = "y" -> 121

Min(a, b) == IF a < b THEN a ELSE b

\* Python's str < str: by code point, a proper prefix being smaller.
RECURSIVE StrLess(_, _)
StrLess(s, t) ==
    IF t = <<>> THEN FALSE
    ELSE IF s = <<>> THEN TRUE
    ELSE IF Ord(Head(s)) # Ord(Head(t)) THEN Ord(Head(s)) < Ord(Head(t))
    ELSE StrLess(Tail(s), Tail(t))

\* f"{mod_fname}.{name}"
Dotted(mod_fname, name) == mod_fname \o <<".">> \o name

\* x.split(".")[-1]
RECURSIVE LastSegment(_)
LastSegment(x) ==
    IF \E i \in 1..Len(x) : x[i] = "."
    THEN LastSegment(Tail(x))
    ELSE x

\* the dotted name without its last segment
ParentName(x) == SubSeq(x, 1, Len(x) - Len(LastSegment(x)) - 1)

\* the elements of a sequence
Range(s) == {s[i] : i \in 1..Len(s)}

\* a set of texts as the ascending sequence (list.sort() of strings)
RECURSIVE SortTexts(_)
SortTexts(S) ==
    IF S = {} THEN <<>>
    ELSE LET m == CHOOSE x \in S : \A y \in S \ {x} : StrLess(x, y)
         IN  <<m>> \o SortTexts(S \ {m})

(***************************************************************************)
(* The package on disk.  p/ holds the package a-b/, the module a.py, the   *)
(* package b/ and the module _c.py; p/b/ holds the module a.py.            *)
(***************************************************************************)

Root == <<"p">>
SegAB == <<"a", "-", "b">>
SegA == <<"a">>
SegB == <<"b">>
SegC == <<"_", "c">>
SegF == <<"f">>

ModAB == Dotted(Root, SegAB)
ModA == Dotted(Root, SegA)
ModB == Dotted(Root, SegB)
ModC == Dotted(Root, SegC)
ModBA == Dotted(ModB, SegA)

Packages == {Root, ModAB, ModB}
Modules == {Root, ModAB, ModA, ModB, ModC, ModBA}

\* the directory entries of a package: file names without the directory
DirEntries(dir) ==
    IF dir = Root THEN {SegAB, SegA \o <<".", "p", "y">>, SegB, SegC \o <<".", "p", "y">>}
    ELSE IF dir = ModB THEN {SegA \o <<".", "p", "y">>}
    ELSE {}

\* inspect.getmodulename: the file name without its suffix
ModuleNameOf(fn) ==
    IF \E i \in 1..Len(fn) : fn[i] = "."
    THEN SubSeq(fn, 1, (CHOOSE i \in 1..Len(fn) : fn[i] = "." /\ \A j \in 1..(i - 1) : fn[j] # ".") - 1)
    ELSE fn

\* os.path.dirname(mod.__file__): a package's own directory, a plain
\* module's parent directory
ModPath(mod) == IF mod \in Packages THEN mod ELSE ParentName(mod)

\* pkgutil.iter_modules([mod_path], prefix): the entries in file-name order
IterModules(mod_path, prefix) ==
    LET files == SortTexts(DirEntries(mod_path))
    IN  [i \in 1..Len(files) |-> prefix \o ModuleNameOf(files[i])]

(***************************************************************************)
(* What the package declares.  An optional attribute is the empty set when *)
(* absent and {value} when present.                                        *)
(***************************************************************************)

MaxKey == 2    \* the largest declared __module_order__
MaxRuns == 2   \* the calls that use the default module_tree

Some(S) == {{}} \cup {{x} : x \in S}
The(opt) == CHOOSE x \in opt : TRUE

Keyed == {ModA, ModB}
AllLists == {<<SegA, SegB>>, <<SegC, SegAB, SegA, SegB, SegF>>}
ExcludeLists == {<<>>, <<SegA>>}

Worlds ==
    [fails : SUBSET {ModAB, ModA, ModB},
     order : [Keyed -> Some(0..MaxKey)],
     all   : Some(AllLists),
     excl  : ExcludeLists]

\* "__all__" in mod.__dict__ / getattr(mod, "__all__", [])
HasAll(w, mod) == mod = Root /\ w.all # {}
AllAttr(w, mod) == IF HasAll(w, mod) THEN The(w.all) ELSE <<>>
\* getattr(mod, "__exclude_submodule__", [])
ExcludeAttr(w, mod) == IF mod = Root THEN w.excl ELSE <<>>
\* getattr(mod, "__module_order__", num_mod)
ModuleOrder(w, mod, num_mod) ==
    IF mod \in Keyed /\ w.order[mod] # {} THEN The(w.order[mod]) ELSE num_mod

\* pkgutil.resolve_name / importlib.import_module succeed
Loads(w, fname) == fname \in Modules /\ fname \notin w.fails

(***************************************************************************)
(* list_submodules                                                         *)
(***************************************************************************)

\* [f"{mod_fname}.{name}" for name in attrs]
Fnames(mod_fname, attrs) == {Dotted(mod_fname, attrs[i]) : i \in 1..Len(attrs)}

\* the filter with __all__ compared undotted: no candidate matches
FilterAllBareNames(w, mod_fname, submod_fnames) ==
    IF HasAll(w, mod_fname)
    THEN SelectSeq(submod_fnames, LAMBDA n : n \in Range(AllAttr(w, mod_fname)))
    ELSE submod_fnames

\* filter out modules not in __all__
FilterAll(w, mod_fname, submod_fnames) ==
    IF HasAll(w, mod_fname)
    THEN SelectSeq(submod_fnames, LAMBDA n : n \in Fnames(mod_fname, AllAttr(w, mod_fname)))
    ELSE submod_fnames

\* filter out modules in __exclude_submodule__
FilterExclude(w, mod_fname, submod_fnames) ==
    SelectSeq(submod_fnames, LAMBDA n : n \notin Fnames(mod_fname, ExcludeAttr(w, mod_fname)))

\* filter out modules which start with '_'
no_underscore(x) == Head(LastSegment(x)) # "_"
FilterUnderscore(submod_fnames) == SelectSeq(submod_fnames, no_underscore)

\* the imports without the try/except: a failed import raises
ImportAllNoCatch(w, submod_fnames) ==
    [raised |-> \E i \in 1..Len(submod_fnames) : ~Loads(w, submod_fnames[i]),
     all_mod |-> SelectSeq(submod_fnames, LAMBDA n : Loads(w, n))]

\* get all modules: a failed import is passed over
ImportAll(w, submod_fnames) ==
    [raised |-> FALSE, all_mod |-> SelectSeq(submod_fnames, LAMBDA n : Loads(w, n))]

\* zip(zip(mod_order, submod_fnames), all_mod): zip stops at the shortest
SortData(mod_order, submod_fnames, all_mod) ==
    [i \in 1..Min(Min(Len(mod_order), Len(submod_fnames)), Len(all_mod)) |->
        [order |-> mod_order[i], fname |-> submod_fnames[i], mod |-> all_mod[i]]]

\* the tuples (order, fname) compared as Python compares tuples
KeyLess(x, y) ==
    \/ x.order < y.order
    \/ x.order = y.order /\ StrLess(x.fname, y.fname)
KeyEqual(x, y) == x.order = y.order /\ x.fname = y.fname

RECURSIVE Insert(_, _)
Insert(x, sorted) ==
    IF sorted = <<>> THEN <<x>>
    ELSE IF KeyLess(x, Head(sorted)) THEN <<x>> \o sorted
    ELSE <<Head(sorted)>> \o Insert(x, Tail(sorted))

\* sorted(sort_data), stable
RECURSIVE Sorted(_)
Sorted(sort_data) ==
    IF sort_data = <<>> THEN <<>>
    ELSE Insert(sort_data[Len(sort_data)], Sorted(SubSeq(sort_data, 1, Len(sort_data) - 1)))

\* two items with equal (order, fname) make sorted() compare the modules,
\* which raises TypeError
SortRaises(sort_data) ==
    \E i, j \in 1..Len(sort_data) : i # j /\ KeyEqual(sort_data[i], sort_data[j])

list_submodules(w, mod_fname) ==
    IF ~Loads(w, mod_fname) THEN [raised |-> TRUE, mods |-> <<>>]
    ELSE
    LET listed   == IterModules(ModPath(mod_fname), mod_fname \o <<".">>)
        in_all   == FilterAll(w, mod_fname, listed)
        not_excl == FilterExclude(w, mod_fname, in_all)
        submod_fnames == FilterUnderscore(not_excl)
        imported == ImportAll(w, submod_fnames)
        all_mod  == imported.all_mod
        num_mod  == Len(all_mod)
        mod_order == [i \in 1..num_mod |-> ModuleOrder(w, all_mod[i], num_mod)]
        sort_data == SortData(mod_order, submod_fnames, all_mod)
        result   == Sorted(sort_data)
    IN  IF imported.raised \/ SortRaises(sort_data)
        THEN [raised |-> TRUE, mods |-> <<>>]
        ELSE [raised |-> FALSE, mods |-> [i \in 1..Len(result) |-> result[i].mod]]

(***************************************************************************)
(* walk_submodules.  A call delivers the entries it appended to            *)
(* module_tree, the callbacks it made in order, and whether it raised.     *)
(* A tree entry is the tuple <<mod, sub_walkdata>>.                        *)
(***************************************************************************)

OnMod(mod) == [cb |-> "on_mod", mod |-> mod, submod |-> <<>>]
OnSubmod(mod, submod) == [cb |-> "on_submod", mod |-> mod, submod |-> submod]

\* the callbacks with on_mod(mod) made after the loop
CallOrderPost(own, loop) == loop \o own

\* the callbacks of one call in the order the body makes them: on_mod(mod)
\* first, then what the loop over the submodules does
CallOrder(own, loop) == own \o loop

RECURSIVE walk_submodules(_, _, _, _)
RECURSIVE WalkLoop(_, _, _, _, _, _)

\* the loop body for submods[i..]: on_submod, then the recursive call with a
\* fresh submod_data, then sub_walkdata += submod_data
WalkLoop(w, mod, submods, i, on_mod, on_submod) ==
    IF i > Len(submods) THEN [raised |-> FALSE, sub_walkdata |-> <<>>, calls |-> <<>>]
    ELSE
    LET pair == IF on_submod THEN <<OnSubmod(mod, submods[i])>> ELSE <<>>
        sub  == walk_submodules(w, submods[i], on_mod, on_submod)
    IN  IF sub.raised
        THEN [raised |-> TRUE, sub_walkdata |-> <<>>, calls |-> pair \o sub.calls]
        ELSE LET rest == WalkLoop(w, mod, submods, i + 1, on_mod, on_submod)
             IN  [raised |-> rest.raised,
                  sub_walkdata |-> sub.appended \o rest.sub_walkdata,
                  calls |-> pair \o sub.calls \o rest.calls]

walk_submodules(w, mod_fname, on_mod, on_submod) ==
    IF ~Loads(w, mod_fname)
    THEN [raised |-> TRUE, appended |-> <<>>, calls |-> <<>>]
    ELSE
    LET own  == IF on_mod THEN <<OnMod(mod_fname)>> ELSE <<>>
        subs == list_submodules(w, mod_fname)
        loop == WalkLoop(w, mod_fname, subs.mods, 1, on_mod, on_submod)
    IN  IF subs.raised
        THEN [raised |-> TRUE, appended |-> <<>>, calls |-> own]
        ELSE IF loop.raised
        THEN [raised |-> TRUE, appended |-> <<>>, calls |-> CallOrder(own, loop.calls)]
        ELSE [raised |-> FALSE,
              appended |-> << <<mod_fname, loop.sub_walkdata>> >>,
              calls |-> CallOrder(own, loop.calls)]

(***************************************************************************)
(* The top-level calls.                                                    *)
(***************************************************************************)

WalkRoots == {Root, ModB}
NoCall ==
    [op |-> "none", arg |-> <<>>, passed |-> FALSE, on_mod |-> FALSE, on_submod |-> FALSE,
     raised |-> FALSE, tree |-> <<>>, calls |-> <<>>, mods |-> <<>>]

Init ==
    /\ world \in Worlds
    /\ default_tree = <<>>
    /\ last = NoCall
    /\ arg = <<>>
    /\ ret = <<>>
    /\ pc = "walker"

\* walk_submodules(mod_fname, on_mod=on_mod, ...) as generate_site calls it:
\* module_tree is the default list, the same object at every such call
WalkDefault(mod_fname) ==
    /\ Len(default_tree) < MaxRuns
    /\ LET r == walk_submodules(world, mod_fname, TRUE, FALSE)
       IN  /\ default_tree' = default_tree \o r.appended
           /\ last' = [op |-> "walk", arg |-> mod_fname, passed |-> FALSE,
                       on_mod |-> TRUE, on_submod |-> FALSE,
                       raised |-> r.raised, tree |-> default_tree \o r.appended,
                       calls |-> r.calls, mods |-> <<>>]
    /\ UNCHANGED <<world, arg, ret, pc>>

\* walk_submodules(mod_fname, module_tree, on_mod, on_submod) with a new
\* empty list and both callbacks
WalkWithList(mod_fname) ==
    /\ LET r == walk_submodules(world, mod_fname, TRUE, TRUE)
       IN  last' = [op |-> "walk", arg |-> mod_fname, passed |-> TRUE,
                    on_mod |-> TRUE, on_submod |-> TRUE,
                    raised |-> r.raised, tree |-> r.appended,
                    calls |-> r.calls, mods |-> <<>>]
    /\ UNCHANGED <<world, default_tree, arg, ret, pc>>

\* list_submodules(mod_fname)
ListCall(mod_fname) ==
    /\ LET r == list_submodules(world, mod_fname)
       IN  last' = [op |-> "list", arg |-> mod_fname, passed |-> FALSE,
                    on_mod |-> FALSE, on_submod |-> FALSE,
                    raised |-> r.raised, tree |-> <<>>,
                    calls |-> <<>>, mods |-> r.mods]
    /\ UNCHANGED <<world, default_tree, arg, ret, pc>>

Next ==
    \/ \E m \in WalkRoots : WalkDefault(m)
    \/ \E m \in WalkRoots : WalkWithList(m)
    \/ \E m \in WalkRoots : ListCall(m)

Spec == Init /\ [][Next]_vars

(***************************************************************************)
(* Text operations of Python that the transformations use.                 *)
(***************************************************************************)

\* str.isspace of one character
IsSpace(c) == c \in {" ", "\t", "\n", "\r", "\f"}

\* pat occurs in s at index i
StartsAt(s, i, pat) ==
    /\ i >= 1
    /\ i + Len(pat) - 1 <= Len(s)
    /\ \A k \in 1..Len(pat) : s[i + k - 1] = pat[k]

\* old in s
Contains(s, old) == \E i \in 1..(Len(s) + 1) : StartsAt(s, i, old)

\* s[i:] of Python with the 1-based index i
From(s, i) == SubSeq(s, i, Len(s))

RECURSIVE Interleave(_, _)
Interleave(s, new) ==
    IF s = <<>> THEN new ELSE new \o <<Head(s)>> \o Interleave(Tail(s), new)

\* s.replace(old, new): every occurrence, left to right, without overlap;
\* an empty old matches before every character and at the end
RECURSIVE Replace(_, _, _)
Replace(s, old, new) ==
    IF old = <<>> THEN Interleave(s, new)
    ELSE IF s = <<>> THEN <<>>
    ELSE IF StartsAt(s, 1, old) THEN new \o Replace(From(s, Len(old) + 1), old, new)
    ELSE <<Head(s)>> \o Replace(Tail(s), old, new)

RECURSIVE LStrip(_)
LStrip(s) == IF s # <<>> /\ IsSpace(Head(s)) THEN LStrip(Tail(s)) ELSE s
RECURSIVE RStrip(_)
RStrip(s) ==
    IF s # <<>> /\ IsSpace(s[Len(s)]) THEN RStrip(SubSeq(s, 1, Len(s) - 1)) ELSE s
\* s.strip()
Strip(s) == RStrip(LStrip(s))

\* the index after the longest run from i of characters in S
RECURSIVE SkipIn(_, _, _)
SkipIn(s, i, S) == IF i <= Len(s) /\ s[i] \in S THEN SkipIn(s, i + 1, S) ELSE i

\* the index after .* matched from i: the end of the line
RECURSIVE LineEnd(_, _)
LineEnd(s, i) == IF i <= Len(s) /\ s[i] # "\n" THEN LineEnd(s, i + 1) ELSE i

\* ^ under re.MULTILINE
AtLineStart(s, i) == i = 1 \/ (i - 1 <= Len(s) /\ s[i - 1] = "\n")

(***************************************************************************)
(* process_doctest                                                         *)
(***************************************************************************)

Prompt == <<">", ">", ">", " ">>
PromptMark == <<">", ">", ">">>
Continuation == <<".", ".", ".", " ">>
Dots == <<".", ".", ".">>
\* the character U+0060, which a TLA+ string cannot hold
Tick == "tick"
FenceOpen == <<Tick, Tick, Tick, "{", "p", "y", "t", "h", "o", "n", "}", "\n">>
FenceClose == <<Tick, Tick, Tick>>

\* (\n(?P=indent)\.\.\.\s+.*$)* from the end e of a code line
RECURSIVE ContinuationEnd(_, _, _)
ContinuationEnd(s, e, indent) ==
    LET d == e + 1 + Len(indent)
    IN  IF /\ e <= Len(s) /\ s[e] = "\n"
           /\ StartsAt(s, e + 1, indent)
           /\ StartsAt(s, d, Dots)
           /\ d + 3 <= Len(s) /\ IsSpace(s[d + 3])
        THEN ContinuationEnd(s, LineEnd(s, SkipIn(s, d + 3, {" ", "\t", "\n", "\r", "\f"})), indent)
        ELSE e

\* (\n(?P=indent)(?!>>>)+.*$|\n(?!\n\n))* from the end e of the code
RECURSIVE OutputEnd(_, _, _)
OutputEnd(s, e, indent) ==
    IF e <= Len(s) /\ s[e] = "\n"
    THEN IF StartsAt(s, e + 1, indent) /\ ~StartsAt(s, e + 1 + Len(indent), PromptMark)
         THEN OutputEnd(s, LineEnd(s, e + 1 + Len(indent)), indent)
         ELSE IF ~StartsAt(s, e + 1, <<"\n", "\n">>)
         THEN OutputEnd(s, e + 1, indent)
         ELSE e
    ELSE e

\* pattern_doctest matched at index i: the groups, and the index after the match
MatchDoctest(s, i) ==
    LET j == SkipIn(s, i, {" ", "\t"})
        indent == SubSeq(s, i, j - 1)
        ok == /\ AtLineStart(s, i)
              /\ StartsAt(s, j, Prompt)
              /\ j + 4 <= Len(s) /\ ~IsSpace(s[j + 4])
        code_end == ContinuationEnd(s, LineEnd(s, j + 4), indent)
        out_end == OutputEnd(s, code_end, indent)
    IN  IF ok
        THEN [ok |-> TRUE, indent |-> indent, code |-> SubSeq(s, i, code_end - 1),
              output |-> SubSeq(s, code_end, out_end - 1), end |-> out_end]
        ELSE [ok |-> FALSE, indent |-> <<>>, code |-> <<>>, output |-> <<>>, end |-> i]

\* pattern_doctest.finditer(doc) from index pos: the matches in order
RECURSIVE FindIter(_, _)
FindIter(s, pos) ==
    IF pos > Len(s) THEN <<>>
    ELSE LET m == MatchDoctest(s, pos)
         IN  IF m.ok THEN <<m>> \o FindIter(s, m.end) ELSE FindIter(s, pos + 1)

\* the body of the for loop for the match m
FoldMatch(processed_doc, m) ==
    LET stripped == Strip(m.output)
        removed == Replace(processed_doc, stripped, <<>>)
        org_code == Replace(m.code, stripped, <<>>)
        code_str == Replace(Replace(org_code, Prompt, <<>>), Continuation, <<>>)
        fenced_code == m.indent \o FenceOpen \o code_str \o <<"\n">> \o m.indent \o FenceClose
    IN  Replace(removed, org_code, fenced_code)

RECURSIVE FoldAll(_, _, _)
FoldAll(processed_doc, ms, k) ==
    IF k > Len(ms) THEN processed_doc
    ELSE FoldAll(FoldMatch(processed_doc, ms[k]), ms, k + 1)

process_doctest(doc) == FoldAll(doc, FindIter(doc, 1), 1)

\* The documents: texts made of at most MaxPieces of these pieces.
MaxPieces == 5
Pieces == {Prompt, Continuation, <<"\n">>, <<" ">>, <<"a">>, <<"b">>}

RECURSIVE Texts(_, _)
Texts(P, n) ==
    IF n = 0 THEN {<<>>}
    ELSE LET shorter == Texts(P, n - 1)
         IN  shorter \cup {t \o x : t \in shorter, x \in P}

InitDoctest ==
    /\ world = (CHOOSE w \in Worlds : TRUE)
    /\ default_tree = <<>>
    /\ last = NoCall
    /\ arg \in Texts(Pieces, MaxPieces)
    /\ ret = <<>>
    /\ pc = "ready"

ProcessDoctest ==
    /\ pc = "ready"
    /\ ret' = process_doctest(arg)
    /\ pc' = "done"
    /\ UNCHANGED <<world, default_tree, last, arg>>

NextDoctest == ProcessDoctest

SpecDoctest == InitDoctest /\ [][NextDoctest]_vars

(***************************************************************************)
(* process_rst_args.  The callable is f, without parameters and without a  *)
(* return annotation, so that sig_str is "f()\n"; i18n is the catalog that *)
(* generate_site loaded.                                                   *)
(***************************************************************************)

WhiteSpace == {" ", "\t", "\n", "\r", "\f"}

\* the index after the longest run from i of characters that are not white space
RECURSIVE SkipNonSpace(_, _)
SkipNonSpace(s, i) ==
    IF i <= Len(s) /\ ~IsSpace(s[i]) THEN SkipNonSpace(s, i + 1) ELSE i

\* the largest index in lo..hi that holds a colon, 0 when there is none
LastColon(s, lo, hi) ==
    LET K == {k \in lo..hi : k <= Len(s) /\ s[k] = ":"}
    IN  IF K = {} THEN 0 ELSE CHOOSE k \in K : \A n \in K : n <= k

BracketWords ==
    {<<"l", "i", "s", "t">>, <<"t", "u", "p", "l", "e">>,
     <<"L", "i", "t", "e", "r", "a", "l">>, <<"U", "n", "i", "o", "n">>,
     <<"O", "p", "t", "i", "o", "n", "a", "l">>}

\* (list|tuple|Literal|Union|Optional)\[.*?\] matched at index i: the index
\* after the match, 0 when there is no match
BracketEnd(s, i) ==
    LET W == {w \in BracketWords : StartsAt(s, i, w \o <<"[">>)}
    IN  IF W = {} THEN 0
        ELSE LET w == CHOOSE x \in W : TRUE
                 open == i + Len(w)
                 C == {k \in (open + 1)..(LineEnd(s, open) - 1) : s[k] = "]"}
             IN  IF C = {} THEN 0 ELSE (CHOOSE k \in C : \A n \in C : k <= n) + 1

\* process spaces in Literal brackets: the first match only, replaced everywhere
StripBracketSpaces(doc) ==
    LET M == {i \in 1..Len(doc) : BracketEnd(doc, i) # 0}
    IN  IF M = {} THEN doc
        ELSE LET i == CHOOSE x \in M : \A y \in M : x <= y
                 org_str == SubSeq(doc, i, BracketEnd(doc, i) - 1)
                 rep_str == Replace(org_str, <<" ">>, <<>>)
             IN  Replace(doc, org_str, rep_str)

FieldTypes == {<<"p", "a", "r", "a", "m">>, <<"r", "e", "t", "u", "r", "n">>,
               <<"r", "a", "i", "s", "e", "s">>}

\* ^[ \t]*:(param|return|raises)\s+ matched at index i: the index after it,
\* 0 when there is no match
FieldHead(s, i) ==
    LET j == SkipIn(s, i, {" ", "\t"})
        F == {f \in FieldTypes : StartsAt(s, j, <<":">> \o f)}
    IN  IF ~AtLineStart(s, i) \/ F = {} THEN 0
        ELSE LET e == j + 1 + Len(CHOOSE f \in F : TRUE)
             IN  IF e <= Len(s) /\ IsSpace(s[e]) THEN e ELSE 0

\* ^[ \t]*:(param|return|raises)\s+.*: matches at index i
FieldSearch(s, i) ==
    /\ FieldHead(s, i) # 0
    /\ \E k \in (FieldHead(s, i) + 1)..SkipIn(s, FieldHead(s, i), WhiteSpace) :
          LastColon(s, k, LineEnd(s, k) - 1) # 0

\* "\n```python\n{sig_str}```\n" for sig_str = "f()\n"
SignatureBlock ==
    <<"\n", Tick, Tick, Tick, "p", "y", "t", "h", "o", "n", "\n",
      "f", "(", ")", "\n", Tick, Tick, Tick, "\n">>

\* the pattern of re.sub matched at index i: the groups, and the index after
\* the match.  \S+ of the type gives characters back until a colon follows;
\* the name group is tried with the whole run only.
MatchField(s, i) ==
    LET j  == SkipIn(s, i, {" ", "\t"})
        h  == FieldHead(s, i)
        a  == SkipIn(s, h, WhiteSpace)
        b  == SkipNonSpace(s, a)
        c  == SkipIn(s, b, WhiteSpace)
        d  == SkipNonSpace(s, c)
        kn == IF c > b THEN LastColon(s, c + 1, d - 1) ELSE 0
        kt == LastColon(s, a + 1, b - 1)
        no == [ok |-> FALSE, indent |-> <<>>, field_type |-> <<>>, type |-> <<>>,
               name |-> {}, comment |-> <<>>, end |-> i]
    IN  IF h = 0 \/ b = a THEN no
        ELSE IF kn # 0
        THEN [ok |-> TRUE, indent |-> SubSeq(s, i, j - 1),
              field_type |-> SubSeq(s, j + 1, h - 1),
              type |-> SubSeq(s, a, b - 1), name |-> {SubSeq(s, c, kn - 1)},
              comment |-> SubSeq(s, kn + 1, LineEnd(s, kn + 1) - 1),
              end |-> LineEnd(s, kn + 1)]
        ELSE IF kt # 0
        THEN [ok |-> TRUE, indent |-> SubSeq(s, i, j - 1),
              field_type |-> SubSeq(s, j + 1, h - 1),
              type |-> SubSeq(s, a, kt - 1), name |-> {},
              comment |-> SubSeq(s, kt + 1, LineEnd(s, kt + 1) - 1),
              end |-> LineEnd(s, kt + 1)]
        ELSE no

\* f"{arg_name}" for a group that did not take part in the match
NoneText == <<"N", "o", "n", "e">>

repl(m, i18n) ==
    LET arg_name == IF m.name = {} THEN NoneText ELSE The(m.name)
    IN  IF m.field_type = <<"p", "a", "r", "a", "m">>
        THEN m.indent \o <<"-", " ", Tick>> \o arg_name \o <<Tick, " ", "(", Tick>>
             \o m.type \o <<Tick, ")", ":">> \o m.comment
        ELSE IF m.field_type = <<"r", "e", "t", "u", "r", "n">>
        THEN m.indent \o <<"-", " ">> \o i18n.RETURN \o <<" ", "(", Tick>>
             \o m.type \o <<Tick, ")", ":">> \o m.comment
        ELSE IF m.field_type = <<"r", "a", "i", "s", "e", "s">>
        THEN m.indent \o <<"-", " ">> \o i18n.RAISE \o <<" ", "(", Tick>>
             \o m.type \o <<")", Tick, ":">> \o m.comment
        ELSE <<>>

\* re.sub(pattern, repl, s) from index i
RECURSIVE SubFields(_, _, _)
SubFields(s, i, i18n) ==
    IF i > Len(s) THEN <<>>
    ELSE LET m == MatchField(s, i)
         IN  IF m.ok THEN repl(m, i18n) \o SubFields(s, m.end, i18n)
             ELSE <<s[i]>> \o SubFields(s, i + 1, i18n)

process_rst_args(doc, i18n) ==
    LET processed_doc == StripBracketSpaces(doc)
        M == {i \in 1..Len(processed_doc) : FieldSearch(processed_doc, i)}
    IN  IF M = {} THEN processed_doc
        ELSE LET idx == CHOOSE x \in M : \A y \in M : x <= y
             IN  SubFields(SubSeq(processed_doc, 1, idx - 1) \o SignatureBlock
                           \o From(processed_doc, idx), 1, i18n)

\* The message catalogs: the untranslated one, where gettext returns the
\* message id, and a translated one.  "U+BC18" and "U+D658" are wide
\* characters.
Catalogs ==
    {[RETURN |-> <<"R", "E", "T", "U", "R", "N">>, RAISE |-> <<"R", "A", "I", "S", "E">>],
     [RETURN |-> <<"U+BC18", "U+D658">>, RAISE |-> <<"U+C608", "U+C678">>]}

\* The field lists: one field line, alone or after a summary line.
ParamText == <<"p", "a", "r", "a", "m">>
ReturnText == <<"r", "e", "t", "u", "r", "n">>
RaisesText == <<"r", "a", "i", "s", "e", "s">>
TypeTexts == {<<"T">>, <<"l", "i", "s", "t", "[", "T", "]">>}
NameTexts == {<<"n">>, <<"n", "2">>}
CommentTexts == {<<>>, <<" ", "x">>, <<" ", "x", ":", " ", "y">>}
IndentTexts == {<<>>, <<" ", " ">>}
SummaryTexts == {<<>>, <<"s", "\n", "\n">>}

\* the forms `:param T n: text`, `:param n: text`, `:return T: text` and
\* `:raises T: text`; type and name are {} when the form has none
FieldForms ==
    [field_type : {ParamText}, type : Some(TypeTexts), name : {{x} : x \in NameTexts}]
    \cup [field_type : {ReturnText, RaisesText}, type : {{x} : x \in TypeTexts}, name : {{}}]

FieldLine(a) ==
    a.indent \o <<":">> \o a.form.field_type
    \o (IF a.form.type = {} THEN <<>> ELSE <<" ">> \o The(a.form.type))
    \o (IF a.form.name = {} THEN <<>> ELSE <<" ">> \o The(a.form.name))
    \o <<":">> \o a.comment

DocOf(a) == a.summary \o FieldLine(a)

InitRst ==
    /\ world = (CHOOSE w \in Worlds : TRUE)
    /\ default_tree = <<>>
    /\ last = NoCall
    /\ arg \in [form : FieldForms, comment : CommentTexts, indent : IndentTexts,
                summary : SummaryTexts, i18n : Catalogs]
    /\ ret = <<>>
    /\ pc = "ready"

ProcessRstArgs ==
    /\ pc = "ready"
    /\ ret' = process_rst_args(DocOf(arg), arg.i18n)
    /\ pc' = "done"
    /\ UNCHANGED <<world, default_tree, last, arg>>

NextRst == ProcessRstArgs

SpecRst == InitRst /\ [][NextRst]_vars

(***************************************************************************)
(* calc_eastasian_width and the function list of a module index page       *)
(* (generate_site.on_mod).  A character outside ASCII is named by its code *)
(* point.                                                                  *)
(***************************************************************************)

HangulChars == {"U+AC00", "U+BC18", "U+C218", "U+C608", "U+C678", "U+D568", "U+D658"}
FullwidthChars == {"U+FF21"}

\* unicodedata.east_asian_width
east_asian_width(ch) ==
    IF ch \in HangulChars THEN "W"
    ELSE IF ch \in FullwidthChars THEN "F"
    ELSE "Na"

RECURSIVE calc_eastasian_width(_)
calc_eastasian_width(txt) ==
    IF txt = <<>> THEN 0
    ELSE (IF east_asian_width(Head(txt)) \in {"W", "F"} THEN 2 ELSE 1)
         + calc_eastasian_width(Tail(txt))

Max(a, b) == IF a > b THEN a ELSE b

\* c * n of Python
Times(c, n) == [k \in 1..n |-> c]

\* f"{s:{width}}": a string is padded on the right to width characters
Format(s, width) == s \o Times(" ", Max(0, width - Len(s)))

\* fdocs.split("\n")[0]
FirstLine(fdocs) == SubSeq(fdocs, 1, LineEnd(fdocs, 1) - 1)

\* the loop over mod.__all__: the callables with their one-line summaries
RECURSIVE GetFunctionList(_)
GetFunctionList(all) ==
    IF all = <<>> THEN <<>>
    ELSE LET e == Head(all)
             fshortdoc == IF e.doc = {} THEN e.fname ELSE FirstLine(The(e.doc))
         IN  (IF e.callable THEN <<[fname |-> e.fname, fshortdoc |-> fshortdoc]>> ELSE <<>>)
             \o GetFunctionList(Tail(all))

\* max over the numbers ns, from acc
RECURSIVE MaxOf(_, _)
MaxOf(ns, acc) == IF ns = <<>> THEN acc ELSE MaxOf(Tail(ns), Max(acc, Head(ns)))

RECURSIVE Concat(_)
Concat(ss) == IF ss = <<>> THEN <<>> ELSE Head(ss) \o Concat(Tail(ss))

\* what f_mod.write receives for the function list
WriteFunctionList(all, i18n) ==
    LET all_funcs     == GetFunctionList(all)
        max_fname     == MaxOf([k \in 1..Len(all_funcs) |-> Len(all_funcs[k].fname)], 0) + 2
        max_fshortdoc == MaxOf([k \in 1..Len(all_funcs) |->
                                   calc_eastasian_width(all_funcs[k].fshortdoc)], 0)
        heading == <<"\n", "\n", "#", "#", "#", " ">> \o i18n.function_list \o <<"\n", "\n">>
        header  == <<"|", " ">> \o Format(i18n.function_name, max_fname)
                   \o <<" ", "|", " ">> \o Format(i18n.function_comment, max_fshortdoc)
                   \o <<" ", "|", "\n">>
        rule    == <<"|", ":">> \o Times("-", max_fname) \o <<"-", "|", ":">>
                   \o Times("-", max_fshortdoc) \o <<"-", "|", "\n">>
        row(f)  == LET len_sp == max_fshortdoc - calc_eastasian_width(f.fshortdoc)
                   IN  <<"|", " ">> \o Format(<<Tick>> \o f.fname \o <<Tick>>, max_fname)
                       \o <<" ", "|", " ">> \o f.fshortdoc \o Times(" ", len_sp)
                       \o <<" ", "|", "\n">>
    IN  IF Len(all_funcs) > 0
        THEN heading \o header \o rule
             \o Concat([k \in 1..Len(all_funcs) |-> row(all_funcs[k])]) \o <<"\n">>
        ELSE <<>>

\* The modules: __all__ of at most MaxExports names, each a callable with or
\* without a docstring or something that is not callable.
MaxExports == 2
FunctionNames == {<<"f">>, <<"g", "e", "t">>}
DocTexts == {<<"a">>, <<"U+AC00">>, <<"a", "U+FF21", "\n", "b">>}
Exports ==
    [fname : FunctionNames, callable : {TRUE}, doc : Some(DocTexts)]
    \cup [fname : FunctionNames, callable : {FALSE}, doc : {{}}]

\* the table labels of the message catalogs
TableCatalogs ==
    {[function_list |-> <<"l">>, function_name |-> <<"n">>, function_comment |-> <<"c">>],
     [function_list |-> <<"function", " ", "list">>,
      function_name |-> <<"f", "u", "n", "c", "t", "i", "o", "n", " ", "n", "a", "m", "e">>,
      function_comment |-> <<"f", "u", "n", "c", "t", "i", "o", "n", " ",
                             "c", "o", "m", "m", "e", "n", "t">>],
     [function_list |-> <<"U+D568", "U+C218">>, function_name |-> <<"U+D568">>,
      function_comment |-> <<"U+C218">>]}

RECURSIVE SeqsUpTo(_, _)
SeqsUpTo(S, n) ==
    IF n = 0 THEN {<<>>}
    ELSE LET shorter == SeqsUpTo(S, n - 1)
         IN  shorter \cup {Append(t, x) : t \in shorter, x \in S}

InitTable ==
    /\ world = (CHOOSE w \in Worlds : TRUE)
    /\ default_tree = <<>>
    /\ last = NoCall
    /\ arg \in [all : SeqsUpTo(Exports, MaxExports) \ {<<>>}, i18n : TableCatalogs]
    /\ ret = <<>>
    /\ pc = "ready"

OnModFunctionList ==
    /\ pc = "ready"
    /\ ret' = WriteFunctionList(arg.all, arg.i18n)
    /\ pc' = "done"
    /\ UNCHANGED <<world, default_tree, last, arg>>

NextTable == OnModFunctionList

SpecTable == InitTable /\ [][NextTable]_vars

(***************************************************************************)
(* The walker's properties.                                                *)
(***************************************************************************)

\* c lies below m in the module tree
IsDescendant(c, m) ==
    Len(c) > Len(m) + 1 /\ SubSeq(c, 1, Len(m)) = m /\ c[Len(m) + 1] = "."

\* every entry of a tree, at any depth
RECURSIVE Entries(_)
Entries(tree) ==
    IF tree = <<>> THEN {}
    ELSE {Head(tree)} \cup Entries(Head(tree)[2]) \cup Entries(Tail(tree))

\* the modules of a list of entries, in order
EntryMods(tree) == [i \in 1..Len(tree) |-> tree[i][1]]

\* the candidates of mod that pass the three filters, stated on sets
Candidates(w, mod) ==
    {n \in Range(IterModules(ModPath(mod), mod \o <<".">>)) :
        /\ HasAll(w, mod) => n \in Fnames(mod, AllAttr(w, mod))
        /\ n \notin Fnames(mod, ExcludeAttr(w, mod))
        /\ Head(LastSegment(n)) # "_"}
Survivors(w, mod) == {n \in Candidates(w, mod) : Loads(w, n)}

\* the children lists a finished call delivered, each with its parent
Delivered ==
    IF last.raised THEN {}
    ELSE IF last.op = "list" THEN {[mod |-> last.arg, subs |-> last.mods]}
    ELSE IF last.op = "walk"
    THEN {[mod |-> e[1], subs |-> EntryMods(e[2])] : e \in Entries(last.tree)}
    ELSE {}

\* C1: in every walk, on_mod(m) comes before on_mod of every descendant of m,
\* and on_submod(parent, child) comes after on_mod(parent) and before
\* on_mod(child); every module but the root is announced by its pair.
C1_ParentBeforeChild ==
    (last.op = "walk" /\ last.on_mod /\ last.on_submod) =>
        LET cs == last.calls
            I  == 1..Len(cs)
        IN  /\ \A i, j \in I :
                  (cs[i].cb = "on_mod" /\ cs[j].cb = "on_mod"
                   /\ IsDescendant(cs[j].mod, cs[i].mod)) => i < j
            /\ \A k \in I : cs[k].cb = "on_submod" =>
                  /\ \E i \in I : i < k /\ cs[i] = OnMod(cs[k].mod)
                  /\ \E j \in I : j > k /\ cs[j] = OnMod(cs[k].submod)
                  /\ \A i \in I : cs[i] = OnMod(cs[k].mod) => i < k
                  /\ \A j \in I : cs[j] = OnMod(cs[k].submod) => j > k
            /\ \A j \in I : (cs[j].cb = "on_mod" /\ cs[j].mod # last.arg) =>
                  \E k \in I : k < j /\ cs[k] = OnSubmod(ParentName(cs[j].mod), cs[j].mod)

\* a walk with both callbacks that reached a grandchild of its root
C1_Witness ==
    /\ last.op = "walk" /\ last.on_submod /\ last.arg = Root
    /\ \E i \in 1..Len(last.calls) : last.calls[i] = OnMod(ModBA)

\* the order key the sort is meant to use: the declared one, else the number
\* of surviving siblings
SortKey(w, parent, mod) == ModuleOrder(w, mod, Cardinality(Survivors(w, parent)))

\* C2: the children list_submodules returns and the walk visits are in
\* non-decreasing order of (order key, dotted name), also when some
\* candidates failed to load.
C2_SortedByKeyAndName ==
    \A d \in Delivered : \A i \in 1..(Len(d.subs) - 1) :
        LET a == d.subs[i]
            b == d.subs[i + 1]
        IN  \/ SortKey(world, d.mod, a) < SortKey(world, d.mod, b)
            \/ /\ SortKey(world, d.mod, a) = SortKey(world, d.mod, b)
               /\ ~StrLess(b, a)

\* a module declares an order key
HasKey(w, mod) == mod \in Keyed /\ w.order[mod] # {}

\* C3: a child without an order key comes after every sibling with one,
\* whatever the declared keys are, and equal keys are ordered by name.
C3_UnkeyedLast ==
    \A d \in Delivered : \A i, j \in 1..Len(d.subs) : i < j =>
        /\ ~(HasKey(world, d.subs[j]) /\ ~HasKey(world, d.subs[i]))
        /\ SortKey(world, d.mod, d.subs[i]) = SortKey(world, d.mod, d.subs[j])
              => StrLess(d.subs[i], d.subs[j])

\* C4 as claimed: with an export list L the children are exactly L
\* intersected with the importable sub-namespaces without a leading
\* underscore, whatever else is declared.
C4_ExactlyExportList ==
    \A d \in Delivered : HasAll(world, d.mod) =>
        Range(d.subs) = {n \in Fnames(d.mod, AllAttr(world, d.mod)) :
                            Loads(world, n) /\ Head(LastSegment(n)) # "_"}

\* C4 amended: with an export list L the children are exactly L intersected
\* with the importable sub-namespaces without a leading underscore, less
\* the names on the exclusion list.
C4_ExportListLessExcluded ==
    \A d \in Delivered : HasAll(world, d.mod) =>
        Range(d.subs) = {n \in Fnames(d.mod, AllAttr(world, d.mod)) :
                            Loads(world, n) /\ Head(LastSegment(n)) # "_"}
                        \ Fnames(d.mod, ExcludeAttr(world, d.mod))

\* a package with an export list and an exclusion list that names a loadable
\* member of the export list was listed
C4_Witness ==
    /\ last.op = "list" /\ last.arg = Root /\ ~last.raised
    /\ HasAll(world, Root) /\ world.excl = <<SegA>> /\ Loads(world, ModA)
    /\ ModB \in Range(last.mods)

C6_OneRootEntry ==
    (last.op = "walk" /\ ~last.raised) =>
        /\ Len(last.tree) = 1
        /\ last.tree[1][1] = last.arg

(***************************************************************************)
(* The doctest folding's properties.                                       *)
(***************************************************************************)

\* s.split("\n")
RECURSIVE SplitLines(_)
SplitLines(s) ==
    LET e == LineEnd(s, 1)
    IN  IF e > Len(s) THEN <<s>>
        ELSE <<SubSeq(s, 1, e - 1)>> \o SplitLines(From(s, e + 1))

RECURSIVE JoinLines(_)
JoinLines(ls) ==
    IF Len(ls) = 1 THEN ls[1] ELSE ls[1] \o <<"\n">> \o JoinLines(Tail(ls))

\* a line without the marker that follows its indentation
Unmarked(line, indent) ==
    LET n == Len(indent)
    IN  IF StartsAt(line, n + 1, Prompt) \/ StartsAt(line, n + 1, Continuation)
        THEN SubSeq(line, 1, n) \o From(line, n + 5)
        ELSE line

\* the fenced block that holds exactly the input lines of the block m
ExpectedFence(m) ==
    LET ls == SplitLines(m.code)
    IN  m.indent \o FenceOpen
        \o JoinLines([k \in 1..Len(ls) |-> Unmarked(ls[k], m.indent)])
        \o <<"\n">> \o m.indent \o FenceClose

\* C7: every doctest block is replaced by a fenced block holding exactly its
\* input lines without the prompt markers, and the recorded output of a
\* block does not occur in the result.
C7_FoldedBlocks ==
    pc = "done" =>
        \A k \in 1..Len(FindIter(arg, 1)) :
            LET m == FindIter(arg, 1)[k]
            IN  /\ Contains(ret, ExpectedFence(m))
                /\ Strip(m.output) # <<>> => ~Contains(ret, Strip(m.output))

\* a line holds nothing but white space
IsBlank(line) == \A i \in 1..Len(line) : IsSpace(line[i])
\* a line opens a doctest block
IsPromptLine(line) ==
    LET j == SkipIn(line, 1, {" ", "\t"})
    IN  StartsAt(line, j, Prompt) /\ j + 4 <= Len(line) /\ ~IsSpace(line[j + 4])

\* line k of the document is prose behind a blank-line boundary: it is not
\* blank, a doctest block and then a blank line come before it, and no prompt
\* line stands between that blank line and k or at k
ProseAfterBoundary(ls, k) ==
    /\ ~IsBlank(ls[k])
    /\ \E j \in 1..(k - 1) :
          /\ IsBlank(ls[j])
          /\ \E i \in 1..(j - 1) : IsPromptLine(ls[i])
          /\ \A n \in (j + 1)..k : ~IsPromptLine(ls[n])

\* C8: the recorded output of a block ends at the first blank line, so every
\* prose line behind that blank line is a line of the result, unchanged.
C8_BlankLineBoundary ==
    pc = "done" =>
        LET ls == SplitLines(arg)
        IN  \A k \in 1..Len(ls) :
                ProseAfterBoundary(ls, k) => ls[k] \in Range(SplitLines(ret))

(***************************************************************************)
(* The field-list rendering's properties.                                  *)
(***************************************************************************)

\* the label of the bullet: the parameter name as the code writes names, in
\* a code span, or the localized RETURN / RAISE
ExpectedLabel(a) ==
    IF a.form.field_type = ParamText THEN <<Tick>> \o The(a.form.name) \o <<Tick>>
    ELSE IF a.form.field_type = ReturnText THEN a.i18n.RETURN
    ELSE a.i18n.RAISE

\* the bullet of a typed field line: the label, the type alone in a code
\* span, the comment as written
ExpectedBullet(a) ==
    a.indent \o <<"-", " ">> \o ExpectedLabel(a)
    \o <<" ", "(", Tick>> \o The(a.form.type) \o <<Tick, ")", ":">> \o a.comment

\* s ends with t
EndsWith(s, t) == Len(t) <= Len(s) /\ StartsAt(s, Len(s) - Len(t) + 1, t)

\* C10: a field line is rendered as a bullet with the parameter name or the
\* localized RETURN / RAISE as its label, the type and only the type in a
\* code span, and the comment as written; the untyped `:param n: text` keeps
\* n as its label and its comment.
C10_FieldBullet ==
    pc = "done" =>
        LET line == SplitLines(ret)[Len(SplitLines(ret))]
        IN  IF arg.form.type # {}
            THEN line = ExpectedBullet(arg)
            ELSE /\ StartsAt(line, 1, arg.indent \o <<"-", " ">> \o ExpectedLabel(arg))
                 /\ EndsWith(line, <<":">> \o arg.comment)

(***************************************************************************)
(* The function list's properties.                                         *)
(***************************************************************************)

\* the display columns at which a row has its column boundaries
Boundaries(row) ==
    {calc_eastasian_width(SubSeq(row, 1, k - 1)) : k \in {n \in 1..Len(row) : row[n] = "|"}}

\* the rows of the table: header, rule and one row for each callable
TableRows(written) ==
    LET ls == SplitLines(written)
    IN  {ls[k] : k \in {n \in 1..Len(ls) : StartsAt(ls[n], 1, <<"|">>)}}

\* C9: widths are display widths, a wide or full-width character counting 2
\* (10 wide characters give 20), and every row of the table has its column
\* boundaries at the same display columns, for every set of names and
\* summaries and every locale's labels.
C9_AlignedColumns ==
    /\ calc_eastasian_width(Times("U+AC00", 10)) = 20
    /\ pc = "done" =>
          \A r1, r2 \in TableRows(ret) : Boundaries(r1) = Boundaries(r2)

====
